---- MODULE Spec2Model ----
(***************************************************************************)
(* Model of lb_haproxy (src/main.go): a client that loads config.json and  *)
(* applies it to a running HAProxy through its administrative API.         *)
(*                                                                         *)
(* main is one sequential goroutine.  Every control-plane call is a        *)
(* blocking call: it is modelled by an action that issues it (the call is  *)
(* appended to `calls` with res = "inflight") and an action that takes its *)
(* answer, success or failure chosen by the environment, and runs the code *)
(* that follows up to the next call or loop head.                          *)
(***************************************************************************)
EXTENDS Integers, Sequences, FiniteSets, TLC

\* Largest number of entries of config.Backends that is explored.
MaxBackends == 2

\* The literal retries argument main passes to addServerWithRetry.
MaxAttempts == 3

\* Largest retries argument explored when addServerWithRetry is run on its own.
MaxRetriesArg == 3

VARIABLES
    pc,        \* position of main
    config,    \* *Config returned by loadConfig (NoConfig before/without it)
    idx,       \* position of `for _, backend := range config.Backends` (1-based)
    server,    \* haproxy.Server built by the current iteration
    retries,   \* parameter `retries` of the running addServerWithRetry
    i,         \* loop variable `i` of addServerWithRetry
    err,       \* variable `err` of addServerWithRetry: "nil" or "err"
    calls,     \* control-plane calls issued so far, in order, with their answers
    out,       \* messages written by log.* and fmt.Printf, in order
    exitCode   \* process exit status: Running, 0 (main returned) or 1 (log.Fatalf)

vars == <<pc, config, idx, server, retries, i, err, calls, out, exitCode>>

Running == -1
NoConfig == [loaded |-> FALSE]
NoServer == [Name |-> ""]

----------------------------------------------------------------------------
\* Configurations loadConfig can return (type Config and its parts).

BackendConfig ==
    { [Name |-> "web1", IP |-> "10.0.0.1", Port |-> 8080, Weight |-> 1],
      [Name |-> "web2", IP |-> "10.0.0.2", Port |-> 8081, Weight |-> 0],
      [Name |-> "web1", IP |-> "10.0.0.3", Port |-> 8080, Weight |-> 2] }

HealthCheckConfig ==
    { [Enabled |-> FALSE, Interval |-> 5,  Fall |-> 3, Rise |-> 2],
      [Enabled |-> TRUE,  Interval |-> 5,  Fall |-> 3, Rise |-> 2],
      [Enabled |-> TRUE,  Interval |-> 30, Fall |-> 0, Rise |-> 1] }

RetryPolicyConfig ==
    { [Retries |-> 3,  Redispatch |-> TRUE],
      [Retries |-> 0,  Redispatch |-> FALSE],
      [Retries |-> 12, Redispatch |-> FALSE],
      [Retries |-> -1, Redispatch |-> TRUE] }

BackendLists == UNION { [1..n -> BackendConfig] : n \in 0..MaxBackends }

Config ==
    { [loaded |-> TRUE,
       HaproxyEndpoint |-> "http://127.0.0.1:5555",
       APIKey |-> "key",
       LoadBalancingAlgorithm |-> "roundrobin",
       Backends |-> b, HealthCheck |-> h, RetryPolicy |-> r] :
      b \in BackendLists, h \in HealthCheckConfig, r \in RetryPolicyConfig }

----------------------------------------------------------------------------
\* Helpers shared by the actions.

\* The call in flight is the last element of calls, with res = "inflight".
Issue(call) == calls' = Append(calls, call @@ [res |-> "inflight", entry |-> 0])

IssueFor(call, e) == calls' = Append(calls, call @@ [res |-> "inflight", entry |-> e])

Answer(ok) ==
    calls' = [calls EXCEPT ![Len(calls)].res = IF ok THEN "ok" ELSE "err"]

\* log.Fatalf: write the message, then os.Exit(1).
Fatalf(stage) ==
    /\ out' = Append(out, [kind |-> "fatal", stage |-> stage])
    /\ exitCode' = 1
    /\ pc' = "exited"

Init ==
    /\ pc = "loadConfig"
    /\ config = NoConfig
    /\ idx = 0
    /\ server = NoServer
    /\ retries = 0
    /\ i = 0
    /\ err = "nil"
    /\ calls = << >>
    /\ out = << >>
    /\ exitCode = Running

----------------------------------------------------------------------------
\* What config.json can be when main starts: missing (os.Open fails), unreadable
\* (ioutil.ReadAll fails), malformed (json.Unmarshal fails), or the JSON of a
\* configuration.
ConfigFiles ==
    { [state |-> st, content |-> NoConfig] :
          st \in {"missing", "unreadable", "malformed"} }
        \cup { [state |-> "json", content |-> c] : c \in Config }

\* loadConfig, lines 148-165: the configuration and the error it returns.
loadConfig(file) ==
    IF file.state \in {"missing", "unreadable", "malformed"}
    THEN [config |-> NoConfig, err |-> "err"]
    ELSE [config |-> file.content, err |-> "nil"]

\* LoadFailed logged with log.Printf instead of log.Fatalf: main goes on with an
\* empty configuration.
LoadFailed_Continues ==
    /\ out' = Append(out, [kind |-> "fatal", stage |-> "loadConfig"])
    /\ config' = [loaded |-> TRUE, HaproxyEndpoint |-> "", APIKey |-> "",
                  LoadBalancingAlgorithm |-> "", Backends |-> << >>,
                  HealthCheck |-> [Enabled |-> FALSE, Interval |-> 0,
                                   Fall |-> 0, Rise |-> 0],
                  RetryPolicy |-> [Retries |-> 0, Redispatch |-> FALSE]]
    /\ pc' = "newHAProxyClient"
    /\ UNCHANGED exitCode

\* main, lines 49-51: an error of loadConfig is fatal.
LoadFailed ==
    /\ Fatalf("loadConfig")
    /\ UNCHANGED config

\* main, lines 47-51: loadConfig either returns a configuration or an error.
LoadConfig ==
    /\ pc = "loadConfig"
    /\ \E file \in ConfigFiles :
        LET r == loadConfig(file) IN
        IF r.err = "nil"
        THEN /\ config' = r.config
             /\ pc' = "newHAProxyClient"
             /\ UNCHANGED <<out, exitCode>>
        ELSE LoadFailed
    /\ UNCHANGED <<idx, server, retries, i, err, calls>>

\* newHAProxyClient, line 102: client.Ping() is issued.
Ping ==
    /\ pc = "newHAProxyClient"
    /\ Issue([op |-> "Ping"])
    /\ pc' = "Ping"
    /\ UNCHANGED <<config, idx, server, retries, i, err, out, exitCode>>

\* fmt.Sprintf("%d", n): a minus sign when n < 0, then the decimal digits of |n|,
\* most significant first.
Digit(d) == CASE d = 0 -> "0" [] d = 1 -> "1" [] d = 2 -> "2" [] d = 3 -> "3"
              [] d = 4 -> "4" [] d = 5 -> "5" [] d = 6 -> "6" [] d = 7 -> "7"
              [] d = 8 -> "8" [] d = 9 -> "9"

RECURSIVE Itoa(_)
Itoa(n) ==
    IF n < 0 THEN "-" \o Itoa(-n)
    ELSE IF n < 10 THEN Digit(n)
    ELSE Itoa(n \div 10) \o Digit(n % 10)

\* Server with the unit missing from the interval ("%d" for "%ds").
Server_NoUnit(backend, hc) ==
    LET s == [Name |-> backend.Name, IP |-> backend.IP, Port |-> backend.Port,
              Weight |-> backend.Weight, Check |-> hc.Enabled,
              Inter |-> "", Fall |-> 0, Rise |-> 0]
    IN  IF hc.Enabled
        THEN [s EXCEPT !.Inter = Itoa(hc.Interval),
                       !.Fall = hc.Fall, !.Rise = hc.Rise]
        ELSE s

\* Server without the test of line 69: the health-check fields are always set.
Server_AlwaysAssigns(backend, hc) ==
    [Name |-> backend.Name, IP |-> backend.IP, Port |-> backend.Port,
     Weight |-> backend.Weight, Check |-> hc.Enabled,
     Inter |-> Itoa(hc.Interval) \o "s", Fall |-> hc.Fall, Rise |-> hc.Rise]

\* main, lines 61-73: the haproxy.Server of one backend.  A Go struct always has
\* all its fields; the ones not assigned keep their zero value.
Server(backend, hc) ==
    LET s == [Name |-> backend.Name, IP |-> backend.IP, Port |-> backend.Port,
              Weight |-> backend.Weight, Check |-> hc.Enabled,
              Inter |-> "", Fall |-> 0, Rise |-> 0]
    IN  IF hc.Enabled
        THEN [s EXCEPT !.Inter = Itoa(hc.Interval) \o "s",
                       !.Fall = hc.Fall, !.Rise = hc.Rise]
        ELSE s

\* PingFailed with the error of Ping dropped: the client is returned and main
\* goes on to the range loop.
PingFailed_Ignored ==
    /\ pc' = "range"
    /\ idx' = 1
    /\ UNCHANGED <<out, exitCode>>

\* newHAProxyClient, lines 103-105, and main, lines 55-57: a failed Ping makes
\* newHAProxyClient return an error, which is fatal in main.
PingFailed ==
    /\ Fatalf("newHAProxyClient")
    /\ UNCHANGED idx

\* newHAProxyClient, lines 102-106, and main, lines 54-60: the answer of Ping.
PingReturn ==
    /\ pc = "Ping"
    /\ \E ok \in BOOLEAN :
        /\ Answer(ok)
        /\ IF ok
           THEN /\ pc' = "range"
                /\ idx' = 1
                /\ UNCHANGED <<out, exitCode>>
           ELSE PingFailed
    /\ UNCHANGED <<config, server, retries, i, err>>

\* RangeBackends with one attempt counter shared by all entries: i is not reset
\* when the next entry starts.
RangeBackends_SharedBudget ==
    /\ pc = "range"
    /\ IF idx <= Len(config.Backends)
       THEN /\ server' = Server(config.Backends[idx], config.HealthCheck)
            /\ retries' = MaxAttempts
            /\ err' = "nil"
            /\ pc' = "addServerWithRetry"
            /\ UNCHANGED i
       ELSE /\ pc' = "setAlgorithm"
            /\ UNCHANGED <<server, retries, i, err>>
    /\ UNCHANGED <<config, idx, calls, out, exitCode>>

\* main, lines 60-74: head of the range loop.  While an entry is left, its server
\* is built and addServerWithRetry(client, server, 3) is entered; after the last
\* entry main goes on to line 81.
RangeBackends ==
    /\ pc = "range"
    /\ IF idx <= Len(config.Backends)
       THEN /\ server' = Server(config.Backends[idx], config.HealthCheck)
            /\ retries' = MaxAttempts
            /\ i' = 0
            /\ err' = "nil"
            /\ pc' = "addServerWithRetry"
       ELSE /\ pc' = "setAlgorithm"
            /\ UNCHANGED <<server, retries, i, err>>
    /\ UNCHANGED <<config, idx, calls, out, exitCode>>

\* MoreAttempts off by one (i <= retries).
MoreAttempts_OffByOne == i <= retries

\* addServerWithRetry, line 112: the loop condition.
MoreAttempts == i < retries

\* FinalFailure with addServerWithRetry returning nil after the loop: main has
\* nothing to log.
FinalFailure_Silent ==
    /\ idx' = idx + 1
    /\ pc' = "range"
    /\ UNCHANGED <<out, exitCode>>

\* FinalFailure with `return err` for the fmt.Errorf of line 120: the error is nil
\* when no attempt was made, and main then logs nothing.
FinalFailure_ReturnsLastErr ==
    /\ out' = IF err = "nil" THEN out
              ELSE Append(out, [kind |-> "finalFailure", name |-> server.Name,
                                entry |-> idx])
    /\ idx' = idx + 1
    /\ pc' = "range"
    /\ UNCHANGED exitCode

\* FinalFailure logged with log.Fatalf instead of log.Printf.
FinalFailure_Fatal ==
    /\ Fatalf("addServerWithRetry")
    /\ UNCHANGED idx

\* addServerWithRetry, line 120, and main, lines 75-77: the attempts are used up.
\* The function returns its final error; main logs it with log.Printf and the
\* range loop moves on to the next entry.
FinalFailure ==
    /\ out' = Append(out, [kind |-> "finalFailure", name |-> server.Name,
                            entry |-> idx])
    /\ idx' = idx + 1
    /\ pc' = "range"
    /\ UNCHANGED exitCode

\* addServerWithRetry, lines 112-113: head of the retry loop.  While i < retries
\* one more AddServer is issued; otherwise the attempts are used up.
RetryLoop ==
    /\ pc = "addServerWithRetry"
    /\ IF MoreAttempts
       THEN /\ IssueFor([op |-> "AddServer", server |-> server], idx)
            /\ pc' = "AddServer"
            /\ UNCHANGED <<idx, out, exitCode>>
       ELSE /\ FinalFailure
            /\ UNCHANGED calls
    /\ UNCHANGED <<config, server, retries, i, err>>

\* Added without its `return nil`: the message is printed and the loop goes on.
Added_NoReturn ==
    /\ out' = Append(out, [kind |-> "added", name |-> server.Name, entry |-> idx])
    /\ i' = i + 1
    /\ pc' = "addServerWithRetry"
    /\ UNCHANGED idx

\* addServerWithRetry, lines 114-117: the attempt succeeded.  The message is
\* printed and the function returns nil, so main moves to the next entry.
Added ==
    /\ out' = Append(out, [kind |-> "added", name |-> server.Name, entry |-> idx])
    /\ idx' = idx + 1
    /\ pc' = "range"
    /\ UNCHANGED i

\* AttemptFailed without the fmt.Printf of line 118.
AttemptFailed_Silent ==
    /\ i' = i + 1
    /\ pc' = "addServerWithRetry"
    /\ UNCHANGED <<idx, server, out>>

\* AttemptFailed with a fallback that switches the health check of the server
\* off before the next attempt.
AttemptFailed_ChangesServer ==
    /\ out' = Append(out, [kind |-> "attemptFailed", name |-> server.Name,
                            entry |-> idx, attempt |-> i + 1, of |-> retries])
    /\ i' = i + 1
    /\ pc' = "addServerWithRetry"
    /\ server' = [server EXCEPT !.Check = FALSE]
    /\ UNCHANGED idx

\* addServerWithRetry, lines 118-119 and 112: the attempt failed.  The attempt is
\* printed and the loop goes round with i+1; the server is left as it is.
AttemptFailed ==
    /\ out' = Append(out, [kind |-> "attemptFailed", name |-> server.Name,
                            entry |-> idx, attempt |-> i + 1, of |-> retries])
    /\ i' = i + 1
    /\ pc' = "addServerWithRetry"
    /\ UNCHANGED <<idx, server>>

\* addServerWithRetry, lines 113-119: the answer of one AddServer attempt.
\* Success prints the message and returns nil (main moves to the next entry);
\* failure prints the attempt and goes round the loop with i+1.
AddServerReturn ==
    /\ pc = "AddServer"
    /\ \E ok \in BOOLEAN :
        /\ Answer(ok)
        /\ IF ok
           THEN /\ err' = "nil"
                /\ Added
                /\ UNCHANGED server
           ELSE /\ err' = "err"
                /\ AttemptFailed
    /\ UNCHANGED <<config, retries, exitCode>>

\* main, line 81: client.SetLoadBalancingAlgorithm is issued.
SetLoadBalancingAlgorithm ==
    /\ pc = "setAlgorithm"
    /\ Issue([op |-> "SetLoadBalancingAlgorithm",
              algorithm |-> config.LoadBalancingAlgorithm])
    /\ pc' = "SetLoadBalancingAlgorithm"
    /\ UNCHANGED <<config, idx, server, retries, i, err, out, exitCode>>

\* AlgorithmFailed logged with log.Printf instead of log.Fatalf: main goes on.
AlgorithmFailed_Logged ==
    /\ out' = Append(out, [kind |-> "fatal", stage |-> "SetLoadBalancingAlgorithm"])
    /\ pc' = "setRetryPolicy"
    /\ UNCHANGED exitCode

\* AlgorithmFailed answered by trying the call again.
AlgorithmFailed_Retry ==
    /\ out' = Append(out, [kind |-> "fatal", stage |-> "SetLoadBalancingAlgorithm"])
    /\ pc' = "setAlgorithm"
    /\ UNCHANGED exitCode

\* main, lines 82-84: a failed SetLoadBalancingAlgorithm is fatal.
AlgorithmFailed ==
    /\ Fatalf("SetLoadBalancingAlgorithm")

\* main, lines 82-88: the answer of SetLoadBalancingAlgorithm.
SetLoadBalancingAlgorithmReturn ==
    /\ pc = "SetLoadBalancingAlgorithm"
    /\ \E ok \in BOOLEAN :
        /\ Answer(ok)
        /\ IF ok
           THEN /\ out' = Append(out, [kind |-> "algorithmSet",
                                       algorithm |-> config.LoadBalancingAlgorithm])
                /\ pc' = "setRetryPolicy"
                /\ UNCHANGED exitCode
           ELSE AlgorithmFailed
    /\ UNCHANGED <<config, idx, server, retries, i, err>>

\* SetConfigRetries with the two SetConfig calls of setRetryPolicy swapped.
SetConfigRetries_RedispatchFirst ==
    /\ pc = "setRetryPolicy"
    /\ Issue([op |-> "SetConfig", key |-> "option redispatch",
              value |-> IF config.RetryPolicy.Redispatch THEN "on" ELSE "off"])
    /\ pc' = "SetConfig retries"
    /\ UNCHANGED <<config, idx, server, retries, i, err, out, exitCode>>

\* setRetryPolicy, line 126: SetConfig("retries", ...) is issued.
SetConfigRetries ==
    /\ pc = "setRetryPolicy"
    /\ Issue([op |-> "SetConfig", key |-> "retries",
              value |-> Itoa(config.RetryPolicy.Retries)])
    /\ pc' = "SetConfig retries"
    /\ UNCHANGED <<config, idx, server, retries, i, err, out, exitCode>>

\* RetriesFailed without the early return: the error is overwritten by the
\* redispatch call that follows.
RetriesFailed_Continue ==
    /\ pc' = "redispatch"
    /\ UNCHANGED <<out, exitCode>>

\* setRetryPolicy, lines 127-129, and main, lines 89-91: a failed retries call
\* makes setRetryPolicy return an error at once, which is fatal in main.
RetriesFailed ==
    /\ Fatalf("setRetryPolicy")

\* setRetryPolicy, lines 126-130: the answer of SetConfig("retries", ...).
SetConfigRetriesReturn ==
    /\ pc = "SetConfig retries"
    /\ \E ok \in BOOLEAN :
        /\ Answer(ok)
        /\ IF ok
           THEN /\ pc' = "redispatch"
                /\ UNCHANGED <<out, exitCode>>
           ELSE RetriesFailed
    /\ UNCHANGED <<config, idx, server, retries, i, err>>

\* SetConfigRedispatch with the branches of lines 133-137 swapped.
SetConfigRedispatch_Inverted ==
    /\ pc = "redispatch"
    /\ Issue([op |-> "SetConfig", key |-> "option redispatch",
              value |-> IF config.RetryPolicy.Redispatch THEN "off" ELSE "on"])
    /\ pc' = "SetConfig redispatch"
    /\ UNCHANGED <<config, idx, server, retries, i, err, out, exitCode>>

\* setRetryPolicy, lines 132-138: SetConfig("option redispatch", on/off) is issued.
SetConfigRedispatch ==
    /\ pc = "redispatch"
    /\ Issue([op |-> "SetConfig", key |-> "option redispatch",
              value |-> IF config.RetryPolicy.Redispatch THEN "on" ELSE "off"])
    /\ pc' = "SetConfig redispatch"
    /\ UNCHANGED <<config, idx, server, retries, i, err, out, exitCode>>

\* MainReturns with the exit status made to depend on the registrations.
MainReturns_FailIfAnyServerFailed ==
    /\ exitCode' = IF \E m \in 1..Len(out) : out[m].kind = "finalFailure"
                   THEN 1 ELSE 0
    /\ pc' = "exited"

\* main, line 92: main returns, the process exits with status 0.
MainReturns ==
    /\ exitCode' = 0
    /\ pc' = "exited"

\* setRetryPolicy, lines 139-141, and main, lines 89-91: a failed redispatch call
\* makes setRetryPolicy return an error, which is fatal in main.
RedispatchFailed ==
    /\ Fatalf("setRetryPolicy")

\* setRetryPolicy, lines 139-144, and main, lines 89-92: the answer of the
\* redispatch call.  Success prints the policy and main returns (exit status 0).
SetConfigRedispatchReturn ==
    /\ pc = "SetConfig redispatch"
    /\ \E ok \in BOOLEAN :
        /\ Answer(ok)
        /\ IF ok
           THEN /\ out' = Append(out, [kind |-> "retryPolicySet",
                                       retries |-> config.RetryPolicy.Retries,
                                       redispatch |-> config.RetryPolicy.Redispatch])
                /\ MainReturns
           ELSE RedispatchFailed
    /\ UNCHANGED <<config, idx, server, retries, i, err>>

Next ==
    \/ LoadConfig
    \/ Ping
    \/ PingReturn
    \/ RangeBackends
    \/ RetryLoop
    \/ AddServerReturn
    \/ SetLoadBalancingAlgorithm
    \/ SetLoadBalancingAlgorithmReturn
    \/ SetConfigRetries
    \/ SetConfigRetriesReturn
    \/ SetConfigRedispatch
    \/ SetConfigRedispatchReturn

Spec == Init /\ [][Next]_vars

\* The goroutine keeps running and every blocking call returns an answer.
FairSpec == Spec /\ WF_vars(Next)

----------------------------------------------------------------------------
\* addServerWithRetry on its own: one call of it for the first entry of a
\* configuration, with any retries argument from -1 up, run until it returns.

RetriesArgs == -1..MaxRetriesArg

InitRetry ==
    /\ pc = "addServerWithRetry"
    /\ config \in { c \in Config : c.Backends # << >> }
    /\ idx = 1
    /\ server = Server(config.Backends[1], config.HealthCheck)
    /\ retries \in RetriesArgs
    /\ i = 0
    /\ err = "nil"
    /\ calls = << >>
    /\ out = << >>
    /\ exitCode = Running

NextRetry ==
    \/ RetryLoop
    \/ AddServerReturn

SpecRetry == InitRetry /\ [][NextRetry]_vars

----------------------------------------------------------------------------
\* Vocabulary of the properties: what the history of a run shows.

Calls(op) == { k \in 1..Len(calls) : calls[k].op = op }

ConfigCalls(key) ==
    { k \in Calls("SetConfig") : calls[k].key = key }

\* The AddServer attempts made for entry e of config.Backends.
Attempts(e) == { k \in Calls("AddServer") : calls[k].entry = e }

Succeeded(k) == calls[k].res = "ok"
Failed(k) == calls[k].res = "err"

Entries == IF config.loaded THEN 1..Len(config.Backends) ELSE {}

\* The range loop has finished entry e.
EntryDone(e) == idx > e

Reported(kind, e) ==
    { m \in 1..Len(out) : out[m].kind = kind /\ out[m].entry = e }

Exited == pc = "exited"
Done == Exited /\ exitCode = 0
Aborted == Exited /\ exitCode = 1

PingHasFailed == \E k \in Calls("Ping") : Failed(k)

\* C1 (P1, fatal short-circuit): once the Ping of newHAProxyClient has failed, the
\* run is aborted (exit status 1) and the history holds no AddServer,
\* SetLoadBalancingAlgorithm or SetConfig call, in this state or in any later one.
C1_FatalShortCircuit ==
    PingHasFailed =>
        /\ Aborted
        /\ Calls("AddServer") = {}
        /\ Calls("SetLoadBalancingAlgorithm") = {}
        /\ Calls("SetConfig") = {}

\* Witness of C1: a run with a non-empty backend list whose Ping failed and
\* which has exited.
C1_Witness ==
    /\ PingHasFailed
    /\ Exited
    /\ Len(config.Backends) > 0

\* C2 (P2, bounded retry): an entry never gets more than 3 AddServer attempts; an
\* entry the loop has finished and whose attempts all failed got exactly 3
\* and has its final failure recorded; and a final failure is recorded for an
\* entry only after exactly 3 attempts, all failed and answered.
C2_BoundedRetry ==
    \A e \in Entries :
        /\ Cardinality(Attempts(e)) <= 3
        /\ (EntryDone(e) /\ \A k \in Attempts(e) : Failed(k)) =>
              /\ Cardinality(Attempts(e)) = 3
              /\ Cardinality(Reported("finalFailure", e)) = 1
        /\ Reported("finalFailure", e) # {} =>
              /\ Cardinality(Attempts(e)) = 3
              /\ \A k \in Attempts(e) : Failed(k)

\* Witness of C2: an entry with three failed attempts and its final failure
\* recorded.
C2_Witness ==
    \E e \in Entries :
        /\ Cardinality({ k \in Attempts(e) : Failed(k) }) = 3
        /\ Reported("finalFailure", e) # {}

\* C3 (P3, early-success stop): if an attempt for an entry succeeded, it is the
\* k-th and last attempt of that entry with k in 1..3, all earlier attempts of the
\* entry failed, the entry is reported as added exactly once, the loop has moved
\* past the entry and no final failure is recorded for it.
C3_EarlySuccessStop ==
    \A e \in Entries :
        \A k \in Attempts(e) :
            Succeeded(k) =>
                /\ \A j \in Attempts(e) : j <= k /\ (j < k => Failed(j))
                /\ Cardinality(Attempts(e)) \in 1..3
                /\ Cardinality(Reported("added", e)) = 1
                /\ Reported("finalFailure", e) = {}
                /\ EntryDone(e)

\* Witness of C3: an entry whose first attempt failed and whose second succeeded,
\* after which the run went on to a later call.
C3_Witness ==
    \E e \in Entries :
        \E k \in Attempts(e) :
            /\ Succeeded(k)
            /\ Cardinality(Attempts(e)) = 2
            /\ Reported("added", e) # {}
            /\ Len(calls) > k

PingHasSucceeded == \E k \in Calls("Ping") : Succeeded(k)

AlgorithmIssued == Calls("SetLoadBalancingAlgorithm") # {}

\* What the history shows of the registration stage: it never exits the run, and
\* by the time the algorithm call is issued every entry has been attempted and
\* finished, an entry whose attempts all failed having its final failure recorded.
RegistrationIsolated ==
    /\ (PingHasSucceeded /\ ~AlgorithmIssued) => exitCode = Running
    /\ AlgorithmIssued =>
          \A e \in Entries :
              /\ Attempts(e) # {}
              /\ EntryDone(e)
              /\ (\A k \in Attempts(e) : Failed(k)) =>
                     Reported("finalFailure", e) # {}

\* C4 (P4, partial-failure isolation): after a successful Ping no outcome of the
\* registrations aborts the run; every entry is attempted, an exhausted entry has
\* its failure recorded while the later entries are still attempted; and the run
\* always goes on to issue SetLoadBalancingAlgorithm.
C4_PartialFailureIsolation ==
    /\ []RegistrationIsolated
    /\ (PingHasSucceeded ~> AlgorithmIssued)

\* Witness of C4: backends [A, B] where A failed all its attempts and B was added,
\* and the algorithm call has been issued.
C4_Witness ==
    /\ AlgorithmIssued
    /\ Len(config.Backends) = 2
    /\ Reported("finalFailure", 1) # {}
    /\ Reported("added", 2) # {}

AlgorithmHasFailed == \E k \in Calls("SetLoadBalancingAlgorithm") : Failed(k)

\* C5 (P5, fatal stage ordering): once SetLoadBalancingAlgorithm has failed, the
\* run is aborted and the history holds no SetConfig call, neither "retries" nor
\* "option redispatch", however many entries were added.
C5_FatalStageOrdering ==
    AlgorithmHasFailed =>
        /\ Aborted
        /\ ConfigCalls("retries") = {}
        /\ ConfigCalls("option redispatch") = {}
        /\ Calls("SetConfig") = {}

\* Witness of C5: the algorithm call failed after two entries were added.
C5_Witness ==
    /\ AlgorithmHasFailed
    /\ Exited
    /\ Reported("added", 1) # {}
    /\ Reported("added", 2) # {}

\* log.Fatalf of main line 90 was the last thing the run did: setRetryPolicy
\* returned an error.
RetryPolicyErrorWasFatal ==
    /\ Aborted
    /\ out # << >>
    /\ out[Len(out)] = [kind |-> "fatal", stage |-> "setRetryPolicy"]

\* C6 (P6, conditional retries ordering): once SetConfig("retries") has failed, no
\* SetConfig("option redispatch") is in the history and the run is aborted; once
\* the retries call succeeded and the redispatch call failed, setRetryPolicy has
\* returned an error and the run is aborted.
C6_ConditionalRetriesOrdering ==
    /\ (\E k \in ConfigCalls("retries") : Failed(k)) =>
          /\ ConfigCalls("option redispatch") = {}
          /\ RetryPolicyErrorWasFatal
    /\ ( /\ \E k \in ConfigCalls("retries") : Succeeded(k)
         /\ \E k \in ConfigCalls("option redispatch") : Failed(k) ) =>
          RetryPolicyErrorWasFatal

\* Witness of C6: the retries call succeeded, the redispatch call failed and the
\* run has exited.
C6_Witness ==
    /\ \E k \in ConfigCalls("retries") : Succeeded(k)
    /\ \E k \in ConfigCalls("option redispatch") : Failed(k)
    /\ Exited

\* The stage of the sequence of main a call belongs to.
Stage(c) ==
    CASE c.op = "Ping" -> 1
      [] c.op = "AddServer" -> 2
      [] c.op = "SetLoadBalancingAlgorithm" -> 3
      [] c.op = "SetConfig" /\ c.key = "retries" -> 4
      [] c.op = "SetConfig" /\ c.key = "option redispatch" -> 5

\* Call b may directly follow call a in the sequence of main.
MayFollow(a, b) ==
    LET n == Len(config.Backends) IN
    CASE Stage(a) = 1 ->
            \/ Stage(b) = 2 /\ b.entry = 1
            \/ Stage(b) = 3 /\ n = 0
      [] Stage(a) = 2 ->
            \/ Stage(b) = 2 /\ b.entry \in {a.entry, a.entry + 1}
            \/ Stage(b) = 3 /\ a.entry = n
      [] Stage(a) = 3 -> Stage(b) = 4
      [] Stage(a) = 4 -> Stage(b) = 5
      [] Stage(a) = 5 -> FALSE

\* C7 (strict call order): the calls of a run are a prefix of: one Ping; the
\* AddServer attempts of the entries in declared order, all attempts of entry e
\* before any of entry e+1, each submitting the server of its entry; one
\* SetLoadBalancingAlgorithm; SetConfig("retries"); SetConfig("option
\* redispatch").  No call of a later stage precedes one of an earlier stage, and
\* only the last call of the history can be in flight.
C7_StrictCallOrder ==
    /\ calls # << >> => calls[1].op = "Ping"
    /\ \A k \in 1..Len(calls) - 1 : MayFollow(calls[k], calls[k + 1])
    /\ \A j, k \in 1..Len(calls) :
          j < k =>
              /\ Stage(calls[j]) <= Stage(calls[k])
              /\ calls[j].res # "inflight"
    /\ \A k \in Calls("AddServer") :
          /\ calls[k].entry \in Entries
          /\ calls[k].server.Name = config.Backends[calls[k].entry].Name
          /\ calls[k].server.IP = config.Backends[calls[k].entry].IP
    /\ Cardinality({ k \in 1..Len(calls) : calls[k].res = "inflight" }) <= 1

\* Witness of C7: a complete run over two entries, the first of which needed
\* more than one attempt, that reached the redispatch call.
C7_Witness ==
    /\ ConfigCalls("option redispatch") # {}
    /\ Len(config.Backends) = 2
    /\ Cardinality(Attempts(1)) > 1
    /\ Attempts(2) # {}

FatalCalls ==
    Calls("Ping") \cup Calls("SetLoadBalancingAlgorithm")
        \cup ConfigCalls("retries") \cup ConfigCalls("option redispatch")

\* Ping, SetLoadBalancingAlgorithm and both SetConfig calls were made and succeeded.
FatalStagesSucceeded ==
    /\ \E k \in Calls("Ping") : Succeeded(k)
    /\ \E k \in Calls("SetLoadBalancingAlgorithm") : Succeeded(k)
    /\ \E k \in ConfigCalls("retries") : Succeeded(k)
    /\ \E k \in ConfigCalls("option redispatch") : Succeeded(k)
    /\ \A k \in FatalCalls : Succeeded(k)

\* C8 (exit outcome independent of the registrations): a run that has exited is
\* Done if and only if its Ping, SetLoadBalancingAlgorithm, SetConfig("retries") and
\* SetConfig("option redispatch") calls all succeeded, and Aborted otherwise; the
\* answers of the AddServer attempts do not enter into it.
C8_ExitIndependentOfRegistration ==
    Exited =>
        /\ Done <=> FatalStagesSucceeded
        /\ Aborted <=> ~FatalStagesSucceeded

\* Witness of C8: a run that is Done although every one of its two entries used
\* up its attempts.
C8_Witness ==
    /\ Done
    /\ Len(config.Backends) = 2
    /\ \A e \in Entries : Reported("finalFailure", e) # {}

\* The most calls a run over the loaded backend list can make.
CallBound == 1 + 3 * Cardinality(Entries) + 3

\* C9 (termination): every run eventually exits; it makes at most 1 + 3*N + 3
\* calls for N entries; once exited it is in exactly one of Done and Aborted,
\* stays there and issues no further call.
C9_Terminates ==
    /\ <>Exited
    /\ [](Len(calls) <= CallBound)
    /\ [](Exited => (Done /\ ~Aborted) \/ (Aborted /\ ~Done))
    /\ [][Exited => (calls' = calls /\ pc' = pc /\ exitCode' = exitCode)]_vars

\* Witness of C9: a run over two entries that made all 1 + 3*2 + 3 calls and
\* has exited.
C9_Witness ==
    /\ Exited
    /\ Cardinality(Entries) = 2
    /\ Len(calls) = 10

\* C10 (fatal stages are single-attempt): Ping, SetLoadBalancingAlgorithm,
\* SetConfig("retries") and SetConfig("option redispatch") are each issued at
\* most once, and a failed one is the last call of the run, which is aborted.
C10_FatalStagesSingleAttempt ==
    /\ Cardinality(Calls("Ping")) <= 1
    /\ Cardinality(Calls("SetLoadBalancingAlgorithm")) <= 1
    /\ Cardinality(ConfigCalls("retries")) <= 1
    /\ Cardinality(ConfigCalls("option redispatch")) <= 1
    /\ \A k \in FatalCalls : Failed(k) => (k = Len(calls) /\ Aborted)

\* Witness of C10: the retries call failed after the algorithm call succeeded,
\* and the run is aborted.
C10_Witness ==
    /\ \E k \in ConfigCalls("retries") : Failed(k)
    /\ \E k \in Calls("SetLoadBalancingAlgorithm") : Succeeded(k)
    /\ Aborted

HealthCheckFields == {"Inter", "Fall", "Rise"}

Decimal == (-1 :> "-1") @@ (0 :> "0") @@ (3 :> "3") @@ (5 :> "5")
               @@ (12 :> "12") @@ (30 :> "30")

\* The key/value pairs of the SetConfig calls, in the order they were issued.
RECURSIVE KeyValues(_)
KeyValues(n) ==
    IF n = 0 THEN << >>
    ELSE IF calls[n].op = "SetConfig"
         THEN Append(KeyValues(n - 1), <<calls[n].key, calls[n].value>>)
         ELSE KeyValues(n - 1)

\* The two pairs setRetryPolicy is expected to send for the loaded configuration.
ExpectedKeyValues ==
    << <<"retries", Decimal[config.RetryPolicy.Retries]>>,
       <<"option redispatch",
         IF config.RetryPolicy.Redispatch THEN "on" ELSE "off">> >>

\* C12 (retry-policy encoding): the SetConfig calls of a run are a prefix of
\* ("retries", decimal string of retry_policy.retries), ("option redispatch",
\* "on"/"off" for redispatch true/false); once the retries call has succeeded and
\* setRetryPolicy has gone on to its next call, they are exactly these two, in
\* this order.
C12_RetryPolicyEncoding ==
    LET kv == KeyValues(Len(calls)) IN
    /\ kv # << >> =>
          /\ Len(kv) <= 2
          /\ kv = SubSeq(ExpectedKeyValues, 1, Len(kv))
    /\ ((\E k \in ConfigCalls("retries") : Succeeded(k)) /\ pc # "redispatch") =>
          kv = ExpectedKeyValues

\* Witness of C12: retries = 3 and redispatch = true gave ("retries", "3") and then
\* ("option redispatch", "on").
C12_Witness ==
    /\ config.loaded
    /\ config.RetryPolicy = [Retries |-> 3, Redispatch |-> TRUE]
    /\ KeyValues(Len(calls)) = << <<"retries", "3">>, <<"option redispatch", "on">> >>

\* C13 (health-check encoding when enabled): with health_check.enabled true, the
\* server of every AddServer attempt has Check true, Inter the decimal string of
\* the configured interval followed by "s", Fall and Rise the configured
\* thresholds, and the name, ip, port and weight of the entry it is for.
C13_HealthCheckEncoding ==
    (config.loaded /\ config.HealthCheck.Enabled) =>
        \A k \in Calls("AddServer") :
            LET srv == calls[k].server
                backend == config.Backends[calls[k].entry]
            IN  /\ srv.Check = TRUE
                /\ srv.Inter = Decimal[config.HealthCheck.Interval] \o "s"
                /\ srv.Fall = config.HealthCheck.Fall
                /\ srv.Rise = config.HealthCheck.Rise
                /\ srv.Name = backend.Name
                /\ srv.IP = backend.IP
                /\ srv.Port = backend.Port
                /\ srv.Weight = backend.Weight

\* Witness of C13: interval = 5 was submitted as "5s", in a retry of the second of
\* two entries.
C13_Witness ==
    /\ config.loaded
    /\ config.HealthCheck.Enabled
    /\ config.HealthCheck.Interval = 5
    /\ \E k \in Attempts(2) :
          /\ calls[k].server.Inter = "5s"
          /\ Cardinality(Attempts(2)) > 1

\* Every attempt of an entry submitted the same server definition.
SameServerEveryAttempt ==
    \A e \in Entries :
        \A j, k \in Attempts(e) : calls[j].server = calls[k].server

\* C14 (configuration is read-only, retries carry no state): no step taken after
\* loadConfig changes the configuration, and all attempts of an entry submit the
\* server definition of its first attempt.
C14_ConfigReadOnly ==
    /\ []SameServerEveryAttempt
    /\ [][config.loaded => config' = config]_vars

\* Witness of C14: a run with health checking enabled that went through all its
\* stages to Done, with a third attempt made for its first entry.
C14_Witness ==
    /\ Done
    /\ config.HealthCheck.Enabled
    /\ Cardinality(Attempts(1)) = 3

\* loadConfig returned an error: main has reported it.
LoadHasFailed ==
    \E m \in 1..Len(out) : out[m] = [kind |-> "fatal", stage |-> "loadConfig"]

\* C15 (config-load failure is fatal before any control-plane interaction): once
\* loadConfig has failed, whether config.json was missing, unreadable or
\* malformed, the run is aborted with no call in its history; and no call is ever
\* issued before a configuration is loaded.
C15_ConfigLoadFatal ==
    /\ LoadHasFailed => (Aborted /\ calls = << >>)
    /\ calls # << >> => config.loaded
    /\ (~config.loaded /\ pc # "loadConfig") => LoadHasFailed

\* Witness of C15: loadConfig failed and the run has exited.
C15_Witness ==
    /\ LoadHasFailed
    /\ Exited
    /\ ~config.loaded

\* The stage named by the log.Fatalf that follows a failure of call c.
FatalStageOf(c) ==
    CASE c.op = "Ping" -> "newHAProxyClient"
      [] c.op = "SetLoadBalancingAlgorithm" -> "SetLoadBalancingAlgorithm"
      [] c.op = "SetConfig" -> "setRetryPolicy"

\* Call k is the n-th attempt of its entry.
AttemptNumber(k) ==
    Cardinality({ j \in Attempts(calls[k].entry) : j <= k })

\* The failure of call k has been written to the output.
FailureReported(k) ==
    IF calls[k].op = "AddServer"
    THEN \E m \in Reported("attemptFailed", calls[k].entry) :
             /\ out[m].attempt = AttemptNumber(k)
             /\ out[m].name = config.Backends[calls[k].entry].Name
    ELSE \E m \in 1..Len(out) :
             out[m] = [kind |-> "fatal", stage |-> FatalStageOf(calls[k])]

FailureMessages ==
    { m \in 1..Len(out) :
          /\ out[m].kind \in {"attemptFailed", "fatal"}
          /\ out[m] # [kind |-> "fatal", stage |-> "loadConfig"] }

\* C16 (no failure is silently swallowed): in every state, so before any further
\* call is issued and at exit, each failed call has its own message in the output
\* (a failed AddServer attempt one naming the server and the attempt, a failed
\* Ping, SetLoadBalancingAlgorithm or SetConfig the fatal message of its stage),
\* and an entry that used up its attempts has a final-failure message naming
\* its server.
C16_NoSilentFailure ==
    /\ \A k \in 1..Len(calls) : Failed(k) => FailureReported(k)
    /\ Cardinality(FailureMessages)
          = Cardinality({ k \in 1..Len(calls) : Failed(k) })
    /\ \A e \in Entries :
          (EntryDone(e) /\ \A k \in Attempts(e) : Failed(k)) =>
              \E m \in Reported("finalFailure", e) :
                  out[m].name = config.Backends[e].Name

\* Witness of C16: the first entry used up its attempts and after that the
\* algorithm call failed; the run has exited.
C16_Witness ==
    /\ Aborted
    /\ AlgorithmHasFailed
    /\ Cardinality({ k \in Attempts(1) : Failed(k) }) = 3

FailedAttempts(e) == { k \in Attempts(e) : Failed(k) }

\* The attempts of entry e are what its own answers call for: failures only, up
\* to 3 of them, or fewer than 3 failures followed by one success.
OwnOutcomeDecides(e) ==
    LET n == Cardinality(Attempts(e))
        f == Cardinality(FailedAttempts(e))
    IN  \/ n = 3 /\ f = 3
        \/ /\ n = f + 1
           /\ f < 3
           /\ \E k \in Attempts(e) :
                 Succeeded(k) /\ \A j \in Attempts(e) : j <= k

\* C17 (the retry budget is per entry and independent): every entry, also one
\* whose name repeats an earlier one, starts with a fresh count: while it is the
\* current entry the loop counter equals the number of its own failed attempts,
\* it never gets more than 3 attempts, and once the loop has passed it the number
\* of its attempts is decided by its own answers alone.
C17_PerEntryBudget ==
    \A e \in Entries :
        /\ Cardinality(Attempts(e)) <= 3
        /\ (idx = e /\ pc \in {"addServerWithRetry", "AddServer"}) =>
              i = Cardinality(FailedAttempts(e))
        /\ EntryDone(e) => OwnOutcomeDecides(e)

\* Witness of C17: two entries of the same name; the first used up its 3
\* attempts and the second still got 3 attempts of its own.
C17_Witness ==
    /\ Cardinality(Entries) = 2
    /\ config.Backends[1].Name = config.Backends[2].Name
    /\ Cardinality(FailedAttempts(1)) = 3
    /\ Cardinality(Attempts(2)) = 3

\* main has left the range loop: the algorithm stage has started.
AlgorithmStageStarted == pc = "setAlgorithm" \/ AlgorithmIssued

\* The last attempt made for entry e.
LastAttempt(e) == CHOOSE k \in Attempts(e) : \A j \in Attempts(e) : j <= k

\* C18 (exactly one final outcome per entry): when the algorithm stage starts,
\* and from then on, every entry has exactly one of "added" and "final failure"
\* in the output; it is "added" exactly when the last attempt made for the entry
\* succeeded, and "final failure" exactly when 3 attempts were made and all
\* failed.
C18_OneOutcomePerEntry ==
    AlgorithmStageStarted =>
        \A e \in Entries :
            LET added == Cardinality(Reported("added", e))
                failed == Cardinality(Reported("finalFailure", e))
            IN  /\ added + failed = 1
                /\ Attempts(e) # {}
                /\ added = 1 <=> Succeeded(LastAttempt(e))
                /\ failed = 1 <=> (Cardinality(Attempts(e)) = 3
                                     /\ \A k \in Attempts(e) : Failed(k))

\* Witness of C18: the algorithm stage has started with one entry added at its
\* third attempt and the other one failed for good.
C18_Witness ==
    /\ AlgorithmStageStarted
    /\ Cardinality(Entries) = 2
    /\ Reported("added", 1) # {}
    /\ Cardinality(Attempts(1)) = 3
    /\ Reported("finalFailure", 2) # {}

\* addServerWithRetry has returned to its caller.
Returned == pc = "range"

\* C19 (retries bound of 0 or less): addServerWithRetry called with retries <= 0
\* issues no AddServer call and still returns its final-failure error, never
\* success; called with retries = n >= 1 it issues at most n calls, and at least
\* one before it returns.
C19_NonPositiveRetries ==
    /\ retries <= 0 =>
          /\ calls = << >>
          /\ Returned => /\ Reported("finalFailure", 1) # {}
                         /\ Reported("added", 1) = {}
    /\ retries >= 1 =>
          /\ Len(calls) <= retries
          /\ Returned => Len(calls) >= 1
    /\ Returned => Cardinality(Reported("finalFailure", 1))
                      + Cardinality(Reported("added", 1)) = 1

\* Witness of C19: a call with retries = 0 has returned.
C19_Witness ==
    /\ retries = 0
    /\ Returned
    /\ calls = << >>

====
